---- MODULE Spec2Model ----
(***************************************************************************)
(* Model of LOOT's platform helpers (src/gui/helpers.cpp):                 *)
(*   FindXboxGamingRootPath  (findRedirect)                                *)
(*   RegKeyStringValue       (readValue)                                   *)
(*   GetRegistrySubKeys      (listChildKeys)                               *)
(*   getLocalAppDataPath / getExecutableDirectory (localAppDataRoot)       *)
(*   GetDriveRootPaths       (listRoots)                                   *)
(* Paths and strings are sequences of code units (numbers).  One call of   *)
(* one operation is observed per behaviour, except GetRegistrySubKeys,     *)
(* where several calls run interleaved.                                    *)
(***************************************************************************)
EXTENDS Integers, Sequences, FiniteSets, TLC

VARIABLES
  op,            \* which operation this behaviour observes
  platform,      \* "win" (_WIN32 defined) or "posix"
  charSigned,    \* whether plain char is a signed type in this build
  logger,        \* getLogger() returned a non-null logger
  nullDeref,     \* logger-> was evaluated while logger was null
  \* ---- FindXboxGamingRootPath
  driveRootPath, \* the argument
  fileBytes,     \* content of <root>/.GamingRoot on disk
  fxPc,          \* position in the function
  ioEvent,       \* what the OS did while the file was checked and read
  bytes,         \* std::vector<char> bytes (values 0..255 stand for the bit patterns)
  content,       \* std::vector<char16_t> content
  fxOutcome,     \* "none", "absent", "path", "runtime_error", "crash"
  relativePath,  \* std::u16string relativePath
  fxPath,        \* the returned path
  \* ---- RegKeyStringValue
  rvRootKey,     \* rootKey argument
  view32,        \* what the 32-bit registry view holds for (subkey, value)
  view64,        \* what the 64-bit registry view holds
  rvPc,
  rvRet,         \* LONG ret
  rvLen,         \* DWORD len
  rvWstr,        \* the written part of std::wstring wstr
  rvLookups,     \* the views RegGetValue was asked for, in order
  rvOutcome,     \* "none", "value", "empty", "invalid_argument", "crash"
  rvValue,       \* the returned string
  \* ---- GetRegistrySubKeys
  keyState,      \* "exists", "missing", "denied": the subkey in the store
  children,      \* the child key names of the subkey, in index order
  gk,            \* per call: the function's locals and position
  handles,       \* per call: handles opened and not yet closed
  opened,        \* per call: number of successful RegOpenKeyEx
  closed,        \* per call: number of RegCloseKey
  enumCalls,     \* per call: number of RegEnumKeyEx calls
  \* ---- getLocalAppDataPath
  envXdg,        \* getenv("XDG_CONFIG_HOME"): Null or Some(value)
  envHome,       \* getenv("HOME"): Null or Some(value)
  exeLink,       \* the OS self-reference query: Null (failed) or Some(path)
  knownFolder,   \* SHGetKnownFolderPath: Null (failed) or Some(path)
  laPc,
  laOutcome,     \* "none", "path", "system_error"
  laPath,
  \* ---- GetDriveRootPaths
  drives,        \* the logical drives when the buffer size is queried
  mounts,        \* the mnt_dir of each entry of /proc/self/mounts, in order
  drPc,
  drBuffer,      \* std::vector<wchar_t> buffer
  drIndex,       \* entries of the mount table read so far
  drReported,    \* the drive strings or mount entries the OS handed over
  drPaths,       \* std::vector<std::filesystem::path> paths
  drOutcome      \* "none", "paths", "system_error", "runtime_error"

commonVars == <<op, platform, charSigned, logger, nullDeref>>
fxVars == <<driveRootPath, fileBytes, fxPc, ioEvent, bytes, content, fxOutcome,
            relativePath, fxPath>>
rvVars == <<rvRootKey, view32, view64, rvPc, rvRet, rvLen, rvWstr, rvLookups,
            rvOutcome, rvValue>>
gkVars == <<keyState, children, gk, handles, opened, closed, enumCalls>>
laVars == <<envXdg, envHome, exeLink, knownFolder, laPc, laOutcome, laPath>>
drVars == <<drives, mounts, drPc, drBuffer, drIndex, drReported, drPaths, drOutcome>>
vars == <<commonVars, fxVars, rvVars, gkVars, laVars, drVars>>

----------------------------------------------------------------------------
(* Bounds of the model *)

MaxPayloadBytes == 6   \* bytes of a marker file after its 8-byte header
MaxChildren == 2       \* child keys of the enumerated registry key
NumCalls == 2          \* interleaved GetRegistrySubKeys calls
MaxMounts == 3         \* entries of the mount table

(* Program constants *)

CHAR_BIT == 8
CHAR16_PATH_OFFSET == 4
MAX_PATH == 260

(* Code units used in paths *)
SLASH == 47
BACKSLASH == 92
COLON == 58
DOT == 46

----------------------------------------------------------------------------
(* Helpers on sequences and numbers *)

(* An optional value: Null, or Some(v) holding v. *)
Null == <<>>

Some(v) == <<v>>

Val(o) == o[1]

Fill(u, n) == [i \in 1..n |-> u]

SeqsUpTo(S, n) == UNION {[1..k -> S] : k \in 0..n}

Take(s, n) == SubSeq(s, 1, IF n < Len(s) THEN n ELSE Len(s))

Drop(s, n) == SubSeq(s, n + 1, Len(s))

RECURSIVE BitOr(_, _)
BitOr(a, b) ==
  IF a = 0 THEN b
  ELSE IF b = 0 THEN a
  ELSE (IF a % 2 = 1 \/ b % 2 = 1 THEN 1 ELSE 0) + 2 * BitOr(a \div 2, b \div 2)

(* The prefix of a buffer before its first null unit (c_str() semantics). *)
RECURSIVE CStr(_)
CStr(buf) ==
  IF buf = <<>> \/ Head(buf) = 0 THEN <<>> ELSE <<Head(buf)>> \o CStr(Tail(buf))

(* A buffer after a null-terminated string was written at its start; the   *)
(* units beyond the terminator keep their old content.  Buffers are kept   *)
(* without their trailing zero fill.                                       *)
WriteBuf(buf, s) == s \o <<0>> \o Drop(buf, Len(s) + 1)

(* UTF-16 to UTF-8 for units of the basic plane. *)
Utf8Unit(u) ==
  IF u < 128 THEN <<u>>
  ELSE IF u < 2048 THEN <<192 + (u \div 64), 128 + (u % 64)>>
  ELSE <<224 + (u \div 4096), 128 + ((u \div 64) % 64), 128 + (u % 64)>>

RECURSIVE FromWinWide(_)
FromWinWide(wstr) ==
  IF wstr = <<>> THEN <<>> ELSE Utf8Unit(Head(wstr)) \o FromWinWide(Tail(wstr))

----------------------------------------------------------------------------
(* std::filesystem::path operator/ *)

IsSep(u) == IF platform = "win" THEN u \in {SLASH, BACKSLASH} ELSE u = SLASH

PreferredSep == IF platform = "win" THEN BACKSLASH ELSE SLASH

IsLetter(u) == (u >= 65 /\ u <= 90) \/ (u >= 97 /\ u <= 122)

RootName(p) ==
  IF platform = "win" /\ Len(p) >= 2 /\ IsLetter(p[1]) /\ p[2] = COLON
  THEN SubSeq(p, 1, 2) ELSE <<>>

HasRootDirectory(p) ==
  LET r == Drop(p, Len(RootName(p))) IN r # <<>> /\ IsSep(r[1])

IsAbsolute(p) ==
  IF platform = "win" THEN RootName(p) # <<>> /\ HasRootDirectory(p)
  ELSE HasRootDirectory(p)

HasFilename(p) ==
  LET r == Drop(p, Len(RootName(p))) IN r # <<>> /\ ~IsSep(r[Len(r)])

PathJoin(p, q) ==
  IF IsAbsolute(q) \/ (RootName(q) # <<>> /\ RootName(q) # RootName(p)) THEN q
  ELSE IF HasRootDirectory(q) THEN RootName(p) \o Drop(q, Len(RootName(q)))
  ELSE IF HasFilename(p) \/ (~HasRootDirectory(p) /\ IsAbsolute(p))
       THEN p \o <<PreferredSep>> \o Drop(q, Len(RootName(q)))
  ELSE p \o Drop(q, Len(RootName(q)))

(* path::parent_path() of an absolute file path *)
RECURSIVE StripFilename(_)
StripFilename(p) ==
  IF p = <<>> \/ IsSep(p[Len(p)]) THEN p ELSE StripFilename(Take(p, Len(p) - 1))

RECURSIVE StripSeps(_)
StripSeps(p) ==
  IF p = <<>> \/ ~IsSep(p[Len(p)]) THEN p ELSE StripSeps(Take(p, Len(p) - 1))

ParentPath(p) ==
  LET dir == StripFilename(p)
      bare == StripSeps(dir)
  IN IF bare = RootName(p) THEN dir ELSE bare

----------------------------------------------------------------------------
(* FindXboxGamingRootPath *)

(* helpers.cpp 360: the byte sequence a .GamingRoot file starts with *)
GAMING_ROOT_HEADER == <<82, 71, 66, 88, 1, 0, 0, 0>>

GAMING_ROOT == <<DOT, 71, 97, 109, 105, 110, 103, 82, 111, 111, 116>>

gamingRootFilePath == PathJoin(driveRootPath, GAMING_ROOT)

(* char -> char16_t: a signed char with the top bit set is sign-extended. *)
ToChar16(b) == IF charSigned /\ b >= 128 THEN b + 65280 ELSE b

(* helpers.cpp 377-379 *)
DecodeUnit(b0, b1) ==
  LET highByte == ToChar16(b0)
      lowByte == ToChar16(b1)
  IN BitOr(highByte, lowByte * (2 ^ CHAR_BIT)) % 65536

RECURSIVE DecodeContent(_)
DecodeContent(bs) ==
  IF Len(bs) < 2 THEN <<>>
  ELSE <<DecodeUnit(bs[1], bs[2])>> \o DecodeContent(Drop(bs, 2))

OddByteCount(bs) == Len(bs) % 2 # 0

(* helpers.cpp 384 *)
TooShort(c) == Len(c) < CHAR16_PATH_OFFSET + 1

(* A variant of RelativePathOf that drops the last unit only when it is a   *)
(* null.                                                                    *)
RelativePathKeepsNonNull(c) ==
  IF c[Len(c)] = 0 THEN SubSeq(c, CHAR16_PATH_OFFSET + 1, Len(c) - 1)
  ELSE SubSeq(c, CHAR16_PATH_OFFSET + 1, Len(c))

(* helpers.cpp 396-397: the units after the header, without the last one *)
RelativePathOf(c) == SubSeq(c, CHAR16_PATH_OFFSET + 1, Len(c) - 1)

FxFinish(outcome, event) ==
  /\ fxPc' = "done"
  /\ fxOutcome' = outcome
  /\ ioEvent' = event

(* helpers.cpp 317-340: the try block that checks and reads the file.  The  *)
(* OS decides what happens: the status query may throw, the path may not    *)
(* be a regular file, the stream may fail to open (nothing is read and      *)
(* nothing is thrown), the read may throw part-way (libstdc++ filebuf) or   *)
(* end early as if at end of file (a filebuf that reports errors as eof).   *)
FxStatThrows ==
  /\ op = "findRedirect" /\ fxPc = "start"
  /\ FxFinish("absent", "statThrew")
  /\ UNCHANGED <<commonVars, driveRootPath, fileBytes, bytes, content,
                 relativePath, fxPath, rvVars, gkVars, laVars, drVars>>

FxNotRegularFile ==
  /\ op = "findRedirect" /\ fxPc = "start"
  /\ FxFinish("absent", "notRegular")
  /\ UNCHANGED <<commonVars, driveRootPath, fileBytes, bytes, content,
                 relativePath, fxPath, rvVars, gkVars, laVars, drVars>>

FxReadThrows ==
  /\ op = "findRedirect" /\ fxPc = "start"
  /\ FxFinish("absent", "readThrew")
  /\ UNCHANGED <<commonVars, driveRootPath, fileBytes, bytes, content,
                 relativePath, fxPath, rvVars, gkVars, laVars, drVars>>

FxOpenFails ==
  /\ op = "findRedirect" /\ fxPc = "start"
  /\ bytes' = <<>>
  /\ ioEvent' = "openFailed"
  /\ fxPc' = "checkEven"
  /\ UNCHANGED <<commonVars, driveRootPath, fileBytes, content, fxOutcome,
                 relativePath, fxPath, rvVars, gkVars, laVars, drVars>>

FxReadCutShort ==
  /\ op = "findRedirect" /\ fxPc = "start"
  /\ \E k \in 0..(Len(fileBytes) - 1) : bytes' = Take(fileBytes, k)
  /\ ioEvent' = "readCutShort"
  /\ fxPc' = "checkEven"
  /\ UNCHANGED <<commonVars, driveRootPath, fileBytes, content, fxOutcome,
                 relativePath, fxPath, rvVars, gkVars, laVars, drVars>>

FxReadAll ==
  /\ op = "findRedirect" /\ fxPc = "start"
  /\ bytes' = fileBytes
  /\ ioEvent' = "read"
  /\ fxPc' = "checkEven"
  /\ UNCHANGED <<commonVars, driveRootPath, fileBytes, content, fxOutcome,
                 relativePath, fxPath, rvVars, gkVars, laVars, drVars>>

(* helpers.cpp 342-372: the hex dump is logged under "if (logger)"; the     *)
(* odd-count branch calls logger->error with no such test.  With a null     *)
(* logger that call is undefined: the process dies there, or the call       *)
(* falls through and the throw that follows is reached.                     *)
FxCheckEven ==
  /\ op = "findRedirect" /\ fxPc = "checkEven"
  /\ IF OddByteCount(bytes)
     THEN /\ fxPc' = "done"
          /\ nullDeref' = (nullDeref \/ ~logger)
          /\ IF logger THEN fxOutcome' = "runtime_error"
             ELSE fxOutcome' \in {"crash", "runtime_error"}
     ELSE /\ fxPc' = "decode"
          /\ UNCHANGED <<fxOutcome, nullDeref>>
  /\ UNCHANGED <<op, platform, charSigned, logger, driveRootPath, fileBytes,
                 ioEvent, bytes, content, relativePath, fxPath,
                 rvVars, gkVars, laVars, drVars>>

(* helpers.cpp 374-393 *)
FxDecode ==
  /\ op = "findRedirect" /\ fxPc = "decode"
  /\ content' = DecodeContent(bytes)
  /\ IF TooShort(content')
     THEN fxPc' = "done" /\ fxOutcome' = "runtime_error"
     ELSE fxPc' = "return" /\ UNCHANGED fxOutcome
  /\ UNCHANGED <<commonVars, driveRootPath, fileBytes, ioEvent, bytes,
                 relativePath, fxPath, rvVars, gkVars, laVars, drVars>>

(* helpers.cpp 395-404 *)
FxReturn ==
  /\ op = "findRedirect" /\ fxPc = "return"
  /\ relativePath' = RelativePathOf(content)
  /\ fxPath' = PathJoin(driveRootPath, relativePath')
  /\ fxPc' = "done"
  /\ fxOutcome' = "path"
  /\ UNCHANGED <<commonVars, driveRootPath, fileBytes, ioEvent, bytes, content,
                 rvVars, gkVars, laVars, drVars>>

FindXboxGamingRootPath ==
  \/ FxStatThrows \/ FxNotRegularFile \/ FxReadThrows \/ FxOpenFails
  \/ FxReadCutShort \/ FxReadAll \/ FxCheckEven \/ FxDecode \/ FxReturn

----------------------------------------------------------------------------
(* RegKeyStringValue *)

RootKeyNames == {"HKEY_CLASSES_ROOT", "HKEY_CURRENT_CONFIG", "HKEY_CURRENT_USER",
                 "HKEY_LOCAL_MACHINE", "HKEY_USERS"}

RootKeySamples == {"HKEY_LOCAL_MACHINE", "HKEY_BOGUS"}

(* helpers.cpp 110-123: TRUE when a handle is returned, FALSE when it throws *)
GetRegistryRootKey(rootKey) == rootKey \in RootKeyNames

(* RegGetValue(RRF_RT_REG_SZ) on one view, with *pcbData = len on entry.    *)
(* The size of a string value counts its terminating null, in bytes.        *)
RegGetValue(view, len) ==
  IF view.st = "value"
  THEN LET cb == 2 * (Len(view.data) + 1) IN
       IF cb <= len
       THEN [ret |-> "ERROR_SUCCESS", len |-> cb, written |-> TRUE]
       ELSE [ret |-> "ERROR_MORE_DATA", len |-> cb, written |-> FALSE]
  ELSE IF view.st = "denied"
  THEN [ret |-> "ERROR_ACCESS_DENIED", len |-> len, written |-> FALSE]
  ELSE [ret |-> "ERROR_FILE_NOT_FOUND", len |-> len, written |-> FALSE]

(* The string does not fit std::wstring wstr(MAX_PATH, 0). *)
Overflows(view) == Len(view.data) > MAX_PATH

(* helpers.cpp 128-148: root key, then the lookup under the 32-bit view *)
RvFirstLookup ==
  /\ op = "readValue" /\ rvPc = "start"
  /\ IF ~GetRegistryRootKey(rvRootKey)
     THEN /\ rvPc' = "done"
          /\ rvOutcome' = "invalid_argument"
          /\ UNCHANGED <<rvRet, rvLen, rvWstr, rvLookups>>
     ELSE LET r == RegGetValue(view32, MAX_PATH) IN
          /\ rvRet' = r.ret
          /\ rvLen' = r.len
          /\ rvWstr' = IF r.written THEN WriteBuf(rvWstr, view32.data) ELSE rvWstr
          /\ rvLookups' = Append(rvLookups, "32")
          /\ rvPc' = "checkFirst"
          /\ UNCHANGED rvOutcome
  /\ UNCHANGED <<commonVars, rvRootKey, view32, view64, rvValue,
                 fxVars, gkVars, laVars, drVars>>

(* helpers.cpp 150-164: the retry under the 64-bit view.  logger->info is   *)
(* called with no test of logger; len still holds what the first call left  *)
(* in it, so the second call may be told the buffer is larger than it is.   *)
RvSecondLookup ==
  /\ op = "readValue" /\ rvPc = "checkFirst"
  /\ IF rvRet # "ERROR_SUCCESS"
     THEN LET r == RegGetValue(view64, rvLen) IN
          /\ nullDeref' = (nullDeref \/ ~logger)
          /\ \/ /\ ~logger
                /\ rvPc' = "done" /\ rvOutcome' = "crash"
                /\ UNCHANGED <<rvRet, rvLen, rvWstr, rvLookups>>
             \/ /\ r.written /\ Overflows(view64)
                /\ rvPc' = "done" /\ rvOutcome' = "crash"
                /\ rvLookups' = Append(rvLookups, "64")
                /\ UNCHANGED <<rvRet, rvLen, rvWstr>>
             \/ /\ rvRet' = r.ret
                /\ rvLen' = r.len
                /\ rvWstr' = IF r.written THEN WriteBuf(rvWstr, view64.data)
                             ELSE rvWstr
                /\ rvLookups' = Append(rvLookups, "64")
                /\ rvPc' = "result"
                /\ UNCHANGED rvOutcome
     ELSE /\ rvPc' = "result"
          /\ UNCHANGED <<nullDeref, rvRet, rvLen, rvWstr, rvLookups, rvOutcome>>
  /\ UNCHANGED <<op, platform, charSigned, logger, rvRootKey, view32, view64,
                 rvValue, fxVars, gkVars, laVars, drVars>>

(* helpers.cpp 166-178 *)
RvReturn ==
  /\ op = "readValue" /\ rvPc = "result"
  /\ IF rvRet = "ERROR_SUCCESS"
     THEN rvOutcome' = "value" /\ rvValue' = FromWinWide(CStr(rvWstr))
     ELSE rvOutcome' = "empty" /\ rvValue' = <<>>
  /\ rvPc' = "done"
  /\ UNCHANGED <<commonVars, rvRootKey, view32, view64, rvRet, rvLen, rvWstr,
                 rvLookups, fxVars, gkVars, laVars, drVars>>

RegKeyStringValue == RvFirstLookup \/ RvSecondLookup \/ RvReturn

----------------------------------------------------------------------------
(* GetRegistrySubKeys *)

Calls == 1..NumCalls

(* RegEnumKeyEx(hKey, index, name, &len, ...) when the store answers        *)
(* normally.  On entry len is the buffer size in characters, terminator     *)
(* included; on success it is set to the characters stored, terminator      *)
(* excluded.                                                                *)
RegEnumKeyEx(index, len) ==
  IF index >= Len(children)
  THEN [status |-> "ERROR_NO_MORE_ITEMS", len |-> len, written |-> FALSE]
  ELSE IF Len(children[index + 1]) + 1 <= len
  THEN [status |-> "ERROR_SUCCESS", len |-> Len(children[index + 1]),
        written |-> TRUE]
  ELSE [status |-> "ERROR_MORE_DATA", len |-> len, written |-> FALSE]

GkInitial ==
  [pc |-> "start", rootKey |-> "none", status |-> "none", subKeyIndex |-> 0, len |-> 0,
   subKeyName |-> <<>>, subKeyNames |-> <<>>, outcome |-> "none"]

(* helpers.cpp 183-197, with a root key name GetRegistryRootKey rejects *)
GkInvalidRootKey(p) ==
  /\ op = "listChildKeys" /\ gk[p].pc = "start"
  /\ \E rootKey \in RootKeySamples :
       /\ ~GetRegistryRootKey(rootKey)
       /\ gk' = [gk EXCEPT ![p].pc = "done", ![p].rootKey = rootKey,
                           ![p].outcome = "invalid_argument"]
  /\ UNCHANGED <<commonVars, keyState, children, handles, opened, closed,
                 enumCalls, fxVars, rvVars, laVars, drVars>>

(* A variant of GkOpenFailed that raises instead of returning no names. *)
GkOpenFailedThrows(p, rootKey, status) ==
  /\ gk' = [gk EXCEPT ![p].pc = "done", ![p].rootKey = rootKey,
                      ![p].status = status,
                      ![p].outcome = "system_error", ![p].subKeyNames = <<>>]
  /\ UNCHANGED <<handles, opened>>

(* helpers.cpp 198-212: what follows a failed RegOpenKeyEx *)
GkOpenFailed(p, rootKey, status) ==
  /\ gk' = [gk EXCEPT ![p].pc = "done", ![p].rootKey = rootKey,
                      ![p].status = status,
                      ![p].outcome = "returned", ![p].subKeyNames = <<>>]
  /\ UNCHANGED <<handles, opened>>

(* helpers.cpp 191-218: RegOpenKeyEx and the locals of the loop *)
GkOpen(p) ==
  /\ op = "listChildKeys" /\ gk[p].pc = "start"
  /\ \E rootKey \in RootKeySamples :
       /\ GetRegistryRootKey(rootKey)
       /\ IF keyState = "exists"
          THEN /\ handles' = [handles EXCEPT ![p] = @ + 1]
               /\ opened' = [opened EXCEPT ![p] = @ + 1]
               /\ gk' = [gk EXCEPT ![p].pc = "enum", ![p].rootKey = rootKey,
                                   ![p].status = "ERROR_SUCCESS",
                                   ![p].subKeyIndex = 0, ![p].len = MAX_PATH,
                                   ![p].subKeyName = <<>>, ![p].subKeyNames = <<>>]
          ELSE GkOpenFailed(p, rootKey,
                            IF keyState = "denied" THEN "ERROR_ACCESS_DENIED"
                            ELSE "ERROR_FILE_NOT_FOUND")
  /\ UNCHANGED <<commonVars, keyState, children, closed, enumCalls,
                 fxVars, rvVars, laVars, drVars>>

(* A variant of GkEnumFatal that raises without RegCloseKey. *)
GkEnumFatalLeak(p, status) ==
  /\ UNCHANGED <<handles, closed>>
  /\ gk' = [gk EXCEPT ![p].pc = "done", ![p].status = status,
                      ![p].outcome = "system_error"]

(* helpers.cpp 230-238: a status other than success and no-more-items *)
GkEnumFatal(p, status) ==
  /\ handles' = [handles EXCEPT ![p] = @ - 1]
  /\ closed' = [closed EXCEPT ![p] = @ + 1]
  /\ gk' = [gk EXCEPT ![p].pc = "done", ![p].status = status,
                      ![p].outcome = "system_error"]

(* helpers.cpp 240-242: executed for every status that did not throw *)
GkPushBack(p, r) ==
  LET buf == IF r.written
             THEN WriteBuf(gk[p].subKeyName, children[gk[p].subKeyIndex + 1])
             ELSE gk[p].subKeyName
  IN gk' = [gk EXCEPT ![p].status = r.status,
                      ![p].len = r.len,
                      ![p].subKeyName = buf,
                      ![p].subKeyNames = Append(@, FromWinWide(CStr(buf))),
                      ![p].subKeyIndex = @ + 1,
                      ![p].pc = IF r.status = "ERROR_SUCCESS" THEN "enum"
                                ELSE "close"]

(* helpers.cpp 220-243: one iteration of the loop, the store answering *)
GkEnum(p) ==
  /\ op = "listChildKeys" /\ gk[p].pc = "enum"
  /\ enumCalls' = [enumCalls EXCEPT ![p] = @ + 1]
  /\ LET r == RegEnumKeyEx(gk[p].subKeyIndex, gk[p].len) IN
       IF r.status \notin {"ERROR_SUCCESS", "ERROR_NO_MORE_ITEMS"}
       THEN GkEnumFatal(p, r.status)
       ELSE GkPushBack(p, r) /\ UNCHANGED <<handles, closed>>
  /\ UNCHANGED <<commonVars, keyState, children, opened, fxVars, rvVars, laVars, drVars>>

(* helpers.cpp 220-238: one iteration in which the store fails the call *)
GkEnumDenied(p) ==
  /\ op = "listChildKeys" /\ gk[p].pc = "enum"
  /\ enumCalls' = [enumCalls EXCEPT ![p] = @ + 1]
  /\ GkEnumFatal(p, "ERROR_ACCESS_DENIED")
  /\ UNCHANGED <<commonVars, keyState, children, opened, fxVars, rvVars, laVars, drVars>>

(* helpers.cpp 245-247 *)
GkClose(p) ==
  /\ op = "listChildKeys" /\ gk[p].pc = "close"
  /\ handles' = [handles EXCEPT ![p] = @ - 1]
  /\ closed' = [closed EXCEPT ![p] = @ + 1]
  /\ gk' = [gk EXCEPT ![p].pc = "done", ![p].outcome = "returned"]
  /\ UNCHANGED <<commonVars, keyState, children, opened, enumCalls,
                 fxVars, rvVars, laVars, drVars>>

GetRegistrySubKeys ==
  \E p \in Calls :
    GkInvalidRootKey(p) \/ GkOpen(p) \/ GkEnum(p) \/ GkEnumDenied(p) \/ GkClose(p)

----------------------------------------------------------------------------
(* getExecutableDirectory and getLocalAppDataPath *)

DOT_CONFIG == <<DOT, 99, 111, 110, 102, 105, 103>>

(* helpers.cpp 432-465: GetModuleFileName / readlink("/proc/self/exe") *)
getExecutableDirectory ==
  IF exeLink = Null
  THEN [outcome |-> "system_error", path |-> <<>>]
  ELSE [outcome |-> "path", path |-> ParentPath(Val(exeLink))]

(* helpers.cpp 468-479 *)
LocalAppDataWin ==
  IF knownFolder = Null
  THEN [outcome |-> "system_error", path |-> <<>>]
  ELSE [outcome |-> "path", path |-> Val(knownFolder)]

(* helpers.cpp 481-494 *)
LocalAppDataPosix ==
  IF envXdg # Null THEN [outcome |-> "path", path |-> Val(envXdg)]
  ELSE IF envHome # Null
  THEN [outcome |-> "path", path |-> PathJoin(Val(envHome), DOT_CONFIG)]
  ELSE getExecutableDirectory

LaFinish(r) ==
  /\ laPc' = "done"
  /\ laOutcome' = r.outcome
  /\ laPath' = r.path
  /\ UNCHANGED <<commonVars, envXdg, envHome, exeLink, knownFolder,
                 fxVars, rvVars, gkVars, drVars>>

(* helpers.cpp 467-496 *)
getLocalAppDataPath ==
  /\ op = "localAppDataRoot" /\ laPc = "start"
  /\ LaFinish(IF platform = "win" THEN LocalAppDataWin ELSE LocalAppDataPosix)

(* helpers.cpp 432-465, called on its own *)
ExecutableDirectoryCall ==
  /\ op = "executableDirectory" /\ laPc = "start"
  /\ LaFinish(getExecutableDirectory)

----------------------------------------------------------------------------
(* GetDriveRootPaths *)

RECURSIVE Flatten(_)
Flatten(ss) == IF ss = <<>> THEN <<>> ELSE Head(ss) \o Flatten(Tail(ss))

(* The drive strings as the OS lays them out, each followed by a null; one *)
(* more null ends the list.                                                *)
DriveStrings(ds) == Flatten([i \in 1..Len(ds) |-> ds[i] \o <<0>>])

(* GetLogicalDriveStrings(nBufferLength, buffer) with the drives ds        *)
(* present: the characters copied, final null not counted, or the size     *)
(* needed when the buffer is smaller than that, nothing being copied.      *)
GetLogicalDriveStrings(nBufferLength, ds) ==
  IF Len(DriveStrings(ds)) + 1 > nBufferLength
  THEN [ret |-> Len(DriveStrings(ds)) + 1, written |-> FALSE]
  ELSE [ret |-> Len(DriveStrings(ds)), written |-> TRUE]

(* std::vector::resize: cut, or grow with zeros *)
Resize(buf, n) == [i \in 1..n |-> IF i <= Len(buf) THEN buf[i] ELSE 0]

(* helpers.cpp 273-281: one path for every null met in the buffer *)
RECURSIVE SplitAtNulls(_, _)
SplitAtNulls(buf, cur) ==
  IF buf = <<>> THEN <<>>
  ELSE IF Head(buf) = 0 THEN <<cur>> \o SplitAtNulls(Tail(buf), <<>>)
  ELSE SplitAtNulls(Tail(buf), Append(cur, Head(buf)))

DriveSamples == {<<67, COLON, BACKSLASH>>, <<68, COLON, BACKSLASH>>}

DriveLists == {<<d>> : d \in DriveSamples}
                \cup {s \in [1..2 -> DriveSamples] : s[1] # s[2]}

MountSamples == {<<SLASH>>, <<SLASH, 100>>}

DrFinish(outcome) ==
  /\ drPc' = "done"
  /\ drOutcome' = outcome

(* helpers.cpp 253-260: the size query answers 0 *)
DrQueryFails ==
  /\ op = "listRoots" /\ platform = "win" /\ drPc = "start"
  /\ DrFinish("system_error")
  /\ UNCHANGED <<commonVars, drives, mounts, drBuffer, drIndex, drReported,
                 drPaths, fxVars, rvVars, gkVars, laVars>>

(* helpers.cpp 253-263: the size query and the allocation *)
DrQuerySize ==
  /\ op = "listRoots" /\ platform = "win" /\ drPc = "start"
  /\ LET maxBufferLength == GetLogicalDriveStrings(0, drives).ret
     IN drBuffer' = Fill(0, maxBufferLength + 1)
  /\ drPc' = "fetch"
  /\ UNCHANGED <<commonVars, drives, mounts, drIndex, drReported, drPaths,
                 drOutcome, fxVars, rvVars, gkVars, laVars>>

(* helpers.cpp 265-269: the fetch fails and answers 0 *)
DrFetchFails ==
  /\ op = "listRoots" /\ platform = "win" /\ drPc = "fetch"
  /\ drBuffer' = Resize(drBuffer, 0)
  /\ drReported' = <<>>
  /\ drPc' = "split"
  /\ UNCHANGED <<commonVars, drives, mounts, drIndex, drPaths, drOutcome,
                 fxVars, rvVars, gkVars, laVars>>

(* helpers.cpp 265-269: the fetch, with the drives present by then *)
DrFetch ==
  /\ op = "listRoots" /\ platform = "win" /\ drPc = "fetch"
  /\ \E ds \in DriveLists :
       LET r == GetLogicalDriveStrings(Len(drBuffer), ds)
           filled == IF r.written
                     THEN DriveStrings(ds) \o <<0>>
                            \o Drop(drBuffer, Len(DriveStrings(ds)) + 1)
                     ELSE drBuffer
       IN /\ drBuffer' = Resize(filled, r.ret)
          /\ drReported' = IF r.written THEN ds ELSE <<>>
  /\ drPc' = "split"
  /\ UNCHANGED <<commonVars, drives, mounts, drIndex, drPaths, drOutcome,
                 fxVars, rvVars, gkVars, laVars>>

(* helpers.cpp 271-283 *)
DrSplit ==
  /\ op = "listRoots" /\ platform = "win" /\ drPc = "split"
  /\ drPaths' = SplitAtNulls(drBuffer, <<>>)
  /\ DrFinish("paths")
  /\ UNCHANGED <<commonVars, drives, mounts, drBuffer, drIndex, drReported,
                 fxVars, rvVars, gkVars, laVars>>

(* helpers.cpp 285-289: setmntent returns null *)
DrOpenMountsFails ==
  /\ op = "listRoots" /\ platform = "posix" /\ drPc = "start"
  /\ DrFinish("runtime_error")
  /\ UNCHANGED <<commonVars, drives, mounts, drBuffer, drIndex, drReported,
                 drPaths, fxVars, rvVars, gkVars, laVars>>

(* helpers.cpp 285-298 *)
DrOpenMounts ==
  /\ op = "listRoots" /\ platform = "posix" /\ drPc = "start"
  /\ drPc' = "read"
  /\ drIndex' = 0
  /\ drPaths' = <<>>
  /\ UNCHANGED <<commonVars, drives, mounts, drBuffer, drReported, drOutcome,
                 fxVars, rvVars, gkVars, laVars>>

(* helpers.cpp 300-308: one getmntent_r call; null ends the loop *)
DrReadEntry ==
  /\ op = "listRoots" /\ platform = "posix" /\ drPc = "read"
  /\ IF drIndex < Len(mounts)
     THEN /\ drPaths' = Append(drPaths, mounts[drIndex + 1])
          /\ drReported' = Append(drReported, mounts[drIndex + 1])
          /\ drIndex' = drIndex + 1
          /\ UNCHANGED <<drPc, drOutcome>>
     ELSE /\ DrFinish("paths")
          /\ UNCHANGED <<drPaths, drReported, drIndex>>
  /\ UNCHANGED <<commonVars, drives, mounts, drBuffer,
                 fxVars, rvVars, gkVars, laVars>>

GetDriveRootPaths ==
  \/ DrQueryFails \/ DrQuerySize \/ DrFetchFails \/ DrFetch \/ DrSplit
  \/ DrOpenMountsFails \/ DrOpenMounts \/ DrReadEntry

----------------------------------------------------------------------------
(* The states an observed call can start in *)

ByteSamples == {0, 65, 128}

HeaderSamples == {GAMING_ROOT_HEADER, <<128, 65, 0, 128, 65, 65, 0, 0>>}

MarkerFiles ==
  {h \o pl : h \in HeaderSamples, pl \in SeqsUpTo(ByteSamples, MaxPayloadBytes)}
    \cup {Take(h, k) : h \in HeaderSamples, k \in 0..7}

RootSamples == IF platform = "win" THEN {<<68, COLON, BACKSLASH>>}
               ELSE {<<SLASH, 100>>}

NameSamples == {<<97>>, <<98, 99>>, <<233>>}

(* What one registry view can hold for the value: nothing, something that   *)
(* cannot be read, a short string, a string longer than MAX_PATH bytes, a   *)
(* string longer than MAX_PATH characters.                                  *)
ViewSamples(u) ==
  {[st |-> "notfound", data |-> <<>>], [st |-> "denied", data |-> <<>>]}
    \cup {[st |-> "value", data |-> d] :
            d \in {<<u>>, Fill(u, MAX_PATH \div 2), Fill(u, MAX_PATH + 1)}}

EnvSamples == {Null, Some(<<>>), Some(<<SLASH, 104>>)}

ExeSamples ==
  IF platform = "win"
  THEN {Null, Some(<<67, COLON, BACKSLASH, 108>>),
        Some(<<67, COLON, BACKSLASH, 97, BACKSLASH, 108>>)}
  ELSE {Null, Some(<<SLASH, 108>>), Some(<<SLASH, 97, SLASH, 108>>)}

FxIdle ==
  /\ driveRootPath = <<>> /\ fileBytes = <<>> /\ fxPc = "idle"
  /\ ioEvent = "none" /\ bytes = <<>> /\ content = <<>>
  /\ fxOutcome = "none" /\ relativePath = <<>> /\ fxPath = <<>>

RvIdle ==
  /\ rvRootKey = "none"
  /\ view32 = [st |-> "notfound", data |-> <<>>]
  /\ view64 = [st |-> "notfound", data |-> <<>>]
  /\ rvPc = "idle" /\ rvRet = "none" /\ rvLen = 0 /\ rvWstr = <<>>
  /\ rvLookups = <<>> /\ rvOutcome = "none" /\ rvValue = <<>>

GkIdle ==
  /\ keyState = "missing" /\ children = <<>>
  /\ gk = [p \in Calls |-> [GkInitial EXCEPT !.pc = "idle"]]
  /\ handles = [p \in Calls |-> 0]
  /\ opened = [p \in Calls |-> 0]
  /\ closed = [p \in Calls |-> 0]
  /\ enumCalls = [p \in Calls |-> 0]

LaIdle ==
  /\ envXdg = Null /\ envHome = Null /\ exeLink = Null /\ knownFolder = Null
  /\ laPc = "idle" /\ laOutcome = "none" /\ laPath = <<>>

DrIdle ==
  /\ drives = <<>> /\ mounts = <<>> /\ drPc = "idle" /\ drBuffer = <<>>
  /\ drIndex = 0 /\ drReported = <<>> /\ drPaths = <<>> /\ drOutcome = "none"

InitFindRedirect ==
  /\ op = "findRedirect"
  /\ platform \in {"win", "posix"}
  /\ charSigned \in (IF platform = "win" THEN {TRUE} ELSE BOOLEAN)
  /\ logger \in BOOLEAN
  /\ driveRootPath \in RootSamples
  /\ fileBytes \in MarkerFiles
  /\ fxPc = "start" /\ ioEvent = "none" /\ bytes = <<>> /\ content = <<>>
  /\ fxOutcome = "none" /\ relativePath = <<>> /\ fxPath = <<>>
  /\ RvIdle /\ GkIdle /\ LaIdle /\ DrIdle

InitReadValue ==
  /\ op = "readValue"
  /\ platform = "win" /\ charSigned = TRUE
  /\ logger \in BOOLEAN
  /\ rvRootKey \in RootKeySamples
  /\ view32 \in ViewSamples(65)
  /\ view64 \in ViewSamples(66)
  /\ rvPc = "start" /\ rvRet = "none" /\ rvLen = 0 /\ rvWstr = <<>>
  /\ rvLookups = <<>> /\ rvOutcome = "none" /\ rvValue = <<>>
  /\ FxIdle /\ GkIdle /\ LaIdle /\ DrIdle

InitListChildKeys ==
  /\ op = "listChildKeys"
  /\ platform = "win" /\ charSigned = TRUE
  /\ logger \in BOOLEAN
  /\ keyState \in {"exists", "missing", "denied"}
  /\ children \in (IF keyState = "exists" THEN SeqsUpTo(NameSamples, MaxChildren)
                   ELSE {<<>>})
  /\ gk = [p \in Calls |-> GkInitial]
  /\ handles = [p \in Calls |-> 0]
  /\ opened = [p \in Calls |-> 0]
  /\ closed = [p \in Calls |-> 0]
  /\ enumCalls = [p \in Calls |-> 0]
  /\ FxIdle /\ RvIdle /\ LaIdle /\ DrIdle

InitLocalAppData ==
  /\ op \in {"localAppDataRoot", "executableDirectory"}
  /\ platform \in {"win", "posix"}
  /\ charSigned = TRUE
  /\ logger \in BOOLEAN
  /\ envXdg \in (IF platform = "posix" THEN EnvSamples ELSE {Null})
  /\ envHome \in (IF platform = "posix" THEN EnvSamples ELSE {Null})
  /\ exeLink \in ExeSamples
  /\ knownFolder \in (IF platform = "win"
                      THEN {Null, Some(<<67, COLON, BACKSLASH, 108>>)}
                      ELSE {Null})
  /\ laPc = "start" /\ laOutcome = "none" /\ laPath = <<>>
  /\ FxIdle /\ RvIdle /\ GkIdle /\ DrIdle

InitListRoots ==
  /\ op = "listRoots"
  /\ platform \in {"win", "posix"}
  /\ charSigned = TRUE
  /\ logger \in BOOLEAN
  /\ drives \in (IF platform = "win" THEN DriveLists ELSE {<<>>})
  /\ mounts \in (IF platform = "posix" THEN SeqsUpTo(MountSamples, MaxMounts)
                 ELSE {<<>>})
  /\ drPc = "start" /\ drBuffer = <<>> /\ drIndex = 0 /\ drReported = <<>>
  /\ drPaths = <<>> /\ drOutcome = "none"
  /\ FxIdle /\ RvIdle /\ GkIdle /\ LaIdle

Init ==
  /\ nullDeref = FALSE
  /\ \/ InitFindRedirect
     \/ InitReadValue
     \/ InitListChildKeys
     \/ InitLocalAppData
     \/ InitListRoots

Next ==
  \/ FindXboxGamingRootPath
  \/ RegKeyStringValue
  \/ GetRegistrySubKeys
  \/ getLocalAppDataPath
  \/ ExecutableDirectoryCall
  \/ GetDriveRootPaths

Spec == Init /\ [][Next]_vars

----------------------------------------------------------------------------
(* Properties of FindXboxGamingRootPath *)

(* The code units a byte sequence encodes in UTF-16LE. *)
RECURSIVE Utf16LeUnits(_)
Utf16LeUnits(bs) ==
  IF Len(bs) < 2 THEN <<>>
  ELSE <<bs[1] + 256 * bs[2]>> \o Utf16LeUnits(Drop(bs, 2))

(* The file is the header, an encoded path and one null unit. *)
WellFormedMarker(f) ==
  /\ Len(f) >= 10 /\ Len(f) % 2 = 0
  /\ Take(f, 8) = GAMING_ROOT_HEADER
  /\ f[Len(f) - 1] = 0 /\ f[Len(f)] = 0

EncodedPathOf(f) == Utf16LeUnits(SubSeq(f, 9, Len(f) - 2))

FileWasRead == op = "findRedirect" /\ fxPc = "done" /\ ioEvent = "read"

(* C1: when the file read is a valid header, a path encoded as UTF-16LE    *)
(* and one null unit, the call returns a path, the decoded relative path   *)
(* is the encoded sequence of units and the returned path is the root      *)
(* joined with it.                                                         *)
C1_RoundTrip ==
  (FileWasRead /\ WellFormedMarker(fileBytes)) =>
    /\ fxOutcome = "path"
    /\ relativePath = EncodedPathOf(fileBytes)
    /\ fxPath = PathJoin(driveRootPath, EncodedPathOf(fileBytes))

(* C2: once the bytes of the file were read, the call raises the malformed *)
(* marker error exactly when the byte count is odd or below 10, and        *)
(* returns a path for every even count of 10 or more.                      *)
C2_Acceptance ==
  FileWasRead =>
    /\ (fxOutcome = "runtime_error") <=> (Len(bytes) % 2 = 1 \/ Len(bytes) < 10)
    /\ (Len(bytes) % 2 = 0 /\ Len(bytes) >= 10) => fxOutcome = "path"

ReadFailures == {"statThrew", "openFailed", "readThrew", "readCutShort"}

(* C3: every failure of checking, opening or reading the marker file ends  *)
(* the call with "absent", whether or not it was reported by an exception. *)
C3_IoFailureIsAbsent ==
  (op = "findRedirect" /\ fxPc = "done" /\ ioEvent \in ReadFailures) =>
    fxOutcome = "absent"

(* What the two functions that log return when a logger is attached. *)
FxOutcomeWithLogger ==
  IF OddByteCount(bytes) \/ TooShort(DecodeContent(bytes))
  THEN "runtime_error" ELSE "path"

RvOutcomeWithLogger ==
  LET r1 == RegGetValue(view32, MAX_PATH)
      r2 == RegGetValue(view64, r1.len)
  IN IF ~GetRegistryRootKey(rvRootKey) THEN "invalid_argument"
     ELSE IF r1.ret = "ERROR_SUCCESS" \/ r2.ret = "ERROR_SUCCESS" THEN "value"
     ELSE "empty"

(* C4: the logger is only used after a test that it is not null, and a     *)
(* call without a logger ends as the same call with a logger does.         *)
C4_SinkIndependence ==
  /\ ~nullDeref
  /\ (op = "findRedirect" /\ fxPc = "done"
        /\ ioEvent \in {"read", "openFailed", "readCutShort"})
       => fxOutcome = FxOutcomeWithLogger
  /\ (op = "readValue" /\ rvPc = "done" /\ ~Overflows(view64))
       => rvOutcome = RvOutcomeWithLogger

----------------------------------------------------------------------------
(* Properties of RegKeyStringValue *)

RvDone == op = "readValue" /\ rvPc = "done" /\ GetRegistryRootKey(rvRootKey)

(* C5: a value missing from both views gives "absent" and no error; a      *)
(* lookup that fails for lack of access, with no view yielding the value,  *)
(* raises an access error and never gives "absent".                        *)
C5_FailureClassification ==
  RvDone =>
    /\ (view32.st = "notfound" /\ view64.st = "notfound") => rvOutcome = "empty"
    /\ ("denied" \in {view32.st, view64.st} /\ "value" \notin {view32.st, view64.st})
         => rvOutcome = "system_error"

HeldValues == {FromWinWide(v.data) : v \in {w \in {view32, view64} : w.st = "value"}}

(* C6: the 32-bit view is asked first; if that lookup succeeds its value   *)
(* is returned and no other lookup is made; otherwise the 64-bit view is   *)
(* asked once; "absent" is returned only when both lookups failed, so a    *)
(* value held by either view is returned whenever one exists.              *)
C6_DualViewFallback ==
  RvDone =>
    /\ rvLookups \in {<<"32">>, <<"32", "64">>}
    /\ (RegGetValue(view32, MAX_PATH).ret = "ERROR_SUCCESS") =>
         /\ rvLookups = <<"32">>
         /\ rvOutcome = "value" /\ rvValue = FromWinWide(view32.data)
    /\ (RegGetValue(view32, MAX_PATH).ret # "ERROR_SUCCESS") =>
         rvLookups = <<"32", "64">>
    /\ HeldValues # {} => (rvOutcome = "value" /\ rvValue \in HeldValues)
    /\ HeldValues = {} => rvOutcome = "empty"

----------------------------------------------------------------------------
(* Properties of GetRegistrySubKeys *)

ChildNames == [i \in 1..Len(children) |-> FromWinWide(children[i])]

(* C7: a call that opened the key and to which the store answered every    *)
(* index below the child count with success and the child count with       *)
(* no-more-items returns the child names, each once, in index order.       *)
C7_CompleteEnumeration ==
  \A p \in Calls :
    (op = "listChildKeys" /\ gk[p].outcome = "returned" /\ opened[p] = 1) =>
      gk[p].subKeyNames = ChildNames

MissingKeyCall(p) ==
  /\ op = "listChildKeys" /\ keyState = "missing"
  /\ gk[p].pc = "done" /\ GetRegistryRootKey(gk[p].rootKey)

(* C8: with a valid root key and a subkey that does not exist, the call    *)
(* returns an empty sequence, raises nothing and never enumerates.         *)
C8_MissingKeyIsEmpty ==
  \A p \in Calls :
    MissingKeyCall(p) =>
      /\ gk[p].outcome = "returned"
      /\ gk[p].subKeyNames = <<>>
      /\ enumCalls[p] = 0
      /\ opened[p] = 0

C8_Witness ==
  \E p \in Calls : MissingKeyCall(p) /\ gk[p].outcome = "returned" /\ ~logger

(* C9: a handle is closed only after it was opened, at most once, and a    *)
(* call that has ended has closed the handle it opened on every way out;   *)
(* when all calls have ended no handle is open.                            *)
C9_HandleRelease ==
  op = "listChildKeys" =>
    /\ \A p \in Calls :
         /\ closed[p] <= opened[p] /\ opened[p] <= 1
         /\ handles[p] = opened[p] - closed[p]
         /\ gk[p].pc = "done" => (closed[p] = opened[p] /\ handles[p] = 0)
         /\ gk[p].pc \in {"enum", "close"} => handles[p] = 1
    /\ (\A p \in Calls : gk[p].pc = "done") => (\A p \in Calls : handles[p] = 0)

C9_Witness ==
  /\ op = "listChildKeys"
  /\ \A p \in Calls : gk[p].pc = "done"
  /\ \E p \in Calls : gk[p].outcome = "system_error" /\ closed[p] = 1
  /\ \E p \in Calls : gk[p].outcome = "returned" /\ closed[p] = 1

----------------------------------------------------------------------------
(* Properties of getLocalAppDataPath *)

(* C10: the call always ends by returning a non-empty path; with both      *)
(* variables unset the path is the directory of the executable.            *)
C10_NeverFails ==
  (op = "localAppDataRoot" /\ laPc = "done") =>
    /\ laOutcome = "path"
    /\ laPath # <<>>
    /\ (platform = "posix" /\ envXdg = Null /\ envHome = Null /\ exeLink # Null)
         => laPath = ParentPath(Val(exeLink))

----------------------------------------------------------------------------
(* Properties of GetDriveRootPaths *)

Range(f) == {f[i] : i \in 1..Len(f)}

RootsReturned == op = "listRoots" /\ drPc = "done" /\ drOutcome = "paths"

(* C11: the returned paths are those of the drive strings or mount entries *)
(* the OS handed over, none of them is empty and none occurs twice.        *)
C11_DistinctRoots ==
  RootsReturned =>
    /\ Range(drPaths) = Range(drReported)
    /\ \A i \in 1..Len(drPaths) : drPaths[i] # <<>>
    /\ \A i, j \in 1..Len(drPaths) : i # j => drPaths[i] # drPaths[j]

----------------------------------------------------------------------------
(* Further properties of FindXboxGamingRootPath *)

ContentDecoded ==
  /\ op = "findRedirect"
  /\ fxPc = "return" \/ (fxPc = "done" /\ fxOutcome = "path")

(* C12: every decoded unit is the byte at the even offset plus 256 times   *)
(* the byte after it, for byte values up to 255, and there are half as     *)
(* many units as bytes.                                                    *)
C12_LittleEndianUnits ==
  ContentDecoded =>
    /\ 2 * Len(content) = Len(bytes)
    /\ \A i \in 1..Len(content) : content[i] = bytes[2 * i - 1] + 256 * bytes[2 * i]

PathReturned == op = "findRedirect" /\ fxPc = "done" /\ fxOutcome = "path"

(* The units between the header and the last unit. *)
MiddleUnits == [i \in 1..(Len(content) - CHAR16_PATH_OFFSET - 1) |->
                  content[i + CHAR16_PATH_OFFSET]]

UnitSamples == {0, 65, 65408}

(* The contents that differ from the decoded one only in the first four    *)
(* units or in the last unit.                                              *)
ContentVariants ==
  {h \o MiddleUnits \o <<l>> :
     h \in {Utf16LeUnits(b) : b \in HeaderSamples}, l \in UnitSamples}

EndsWithSeparator(p) == p # <<>> /\ IsSep(p[Len(p)])

HeaderAndLastUnitIgnored ==
  /\ relativePath = MiddleUnits
  /\ \A c \in ContentVariants :
       PathJoin(driveRootPath, RelativePathOf(c)) = fxPath

(* C13 as stated: the relative path is units 5 to n-1 whatever the header  *)
(* and the last unit are, contents differing only there give the same      *)
(* path, and a content of 5 units gives the root itself.                   *)
C13_RootForFiveUnits ==
  PathReturned =>
    /\ HeaderAndLastUnitIgnored
    /\ Len(content) = CHAR16_PATH_OFFSET + 1 =>
         (relativePath = <<>> /\ fxPath = driveRootPath)

(* C13, amended: as above, but a content of 5 units gives the root joined  *)
(* with the empty path, which is the root when the root ends with a        *)
(* separator and the root followed by one separator when it does not.      *)
C13_HeaderAndLastUnitIgnored ==
  PathReturned =>
    /\ HeaderAndLastUnitIgnored
    /\ Len(content) = CHAR16_PATH_OFFSET + 1 =>
         /\ relativePath = <<>>
         /\ fxPath = IF EndsWithSeparator(driveRootPath) THEN driveRootPath
                     ELSE driveRootPath \o <<PreferredSep>>

C13_Witness ==
  /\ PathReturned
  /\ Len(content) = CHAR16_PATH_OFFSET + 1
  /\ Take(bytes, 8) # GAMING_ROOT_HEADER
  /\ content[Len(content)] # 0
  /\ ~EndsWithSeparator(driveRootPath)

====
